---- MODULE Spec2Model ----
(***************************************************************************)
(* Model of scripts/generate_launch_infographics.py: the font resolution   *)
(* at import, the composite shapes panel / bullet / arrow, the chart       *)
(* mapping to_xy (IEEE-754 double product, truncated), the four diagram    *)
(* builders and main.  A canvas is the sequence of drawing operations      *)
(* issued against it; a drawing operation is a record of its arguments.    *)
(***************************************************************************)
EXTENDS Integers, Sequences, FiniteSets, TLC

\* ------------------------------------------------------------ theme (l.10-21)
W == 1536
H == 1024
BG == "#0B1220"
SURFACE == "#111B30"
SURFACE_ALT == "#0F172A"
BORDER == "#1F2A44"
TEXT == "#E5E7EB"
MUTED == "#94A3B8"
GREEN == "#16A34A"
RED == "#EF4444"
BLUE == "#38BDF8"
AMBER == "#F59E0B"

\* Python's None (a missing title, outline=None).
None == "None"

\* ------------------------------------------------- IEEE-754 double arithmetic
\* Python's float is the IEEE-754 binary64.  A double is modelled as
\* [m |-> its 53-bit significand, e |-> exponent], of value m * 2^e; the
\* significand is held as 5 limbs, most significant first: its leading bit
\* and four limbs of 13 bits (53 = 1 + 4 * 13).  Zero has all limbs 0.
LimbBits == 13
NLimbs == 5
MantBits == 1 + (NLimbs - 1) * LimbBits

RECURSIVE Pow2(_)
Pow2(k) == IF k = 0 THEN 1 ELSE 2 * Pow2(k - 1)

LimbBase == Pow2(LimbBits)

Front(s) == SubSeq(s, 1, Len(s) - 1)
Last(s) == s[Len(s)]

ZeroFloat == [m |-> [i \in 1..NLimbs |-> 0], e |-> 0]

\* The number of binary digits of a natural number.
RECURSIVE BitLen(_)
BitLen(c) == IF c = 0 THEN 0 ELSE 1 + BitLen(c \div 2)

\* limbs + 1 (the top limb takes the carry unreduced).
RECURSIVE IncLimbs(_)
IncLimbs(b) ==
    IF Len(b) = 1 THEN <<b[1] + 1>>
    ELSE IF Last(b) + 1 < LimbBase THEN Front(b) \o <<Last(b) + 1>>
    ELSE IncLimbs(Front(b)) \o <<0>>

\* Round-to-nearest, ties-to-even, of the significand `kept` followed by a
\* discarded part, of which `half` says it is exactly one half of the last kept
\* place, `above` more than one half.  e is the exponent of the kept limbs.
RoundNearestEven(kept, e, above, half) ==
    LET up == above \/ (half /\ Last(kept) % 2 = 1)
        r == IncLimbs(kept)
    IN IF ~up THEN [m |-> kept, e |-> e]
       ELSE IF r[1] = 2 THEN [m |-> <<1>> \o SubSeq(r, 2, NLimbs), e |-> e + 1]
       ELSE [m |-> r, e |-> e]

\* Long division: the next `count` quotient limbs of r / d (r < d).
RECURSIVE DivLimbs(_, _, _)
DivLimbs(r, d, count) ==
    IF count = 0 THEN <<>>
    ELSE <<(r * LimbBase) \div d>> \o DivLimbs((r * LimbBase) % d, d, count - 1)

\* The remainder after `count` quotient limbs.
RECURSIVE DivRem(_, _, _)
DivRem(r, d, count) ==
    IF count = 0 THEN r ELSE DivRem((r * LimbBase) % d, d, count - 1)

\* The least k with n * 2^k >= d.
RECURSIVE Shift(_, _)
Shift(n, d) == IF n >= d THEN 0 ELSE 1 + Shift(2 * n, d)

\* The double a decimal literal n/d denotes (0 <= n/d < 2): the quotient
\* correctly rounded to 53 bits, as Python reads 0.93.
FloatLiteral(n, d) ==
    IF n = 0 THEN ZeroFloat
    ELSE LET k == Shift(n, d)
             r0 == n * Pow2(k) - d
             q == <<1>> \o DivLimbs(r0, d, NLimbs - 1)
             r == DivRem(r0, d, NLimbs - 1)
         IN RoundNearestEven(q, 0 - k - (MantBits - 1), 2 * r > d, 2 * r = d)

\* limbs * w + carry, for a natural w < 2^13 (the top limb is not reduced).
RECURSIVE MulLimbs(_, _, _)
MulLimbs(b, w, carry) ==
    IF Len(b) = 1 THEN <<b[1] * w + carry>>
    ELSE LET t == Last(b) * w + carry
         IN MulLimbs(Front(b), w, t \div LimbBase) \o <<t % LimbBase>>

\* The limbs p (top limb of 1 + sh bits) shifted right by sh <= 13 bits.
ShiftRight(p, sh) ==
    [i \in 1..NLimbs |->
        IF i = 1 THEN p[1] \div Pow2(sh)
        ELSE (p[i - 1] % Pow2(sh)) * Pow2(LimbBits - sh) + p[i] \div Pow2(sh)]

\* float * int (l.232, 248, 249): the int is converted exactly, the exact
\* product is rounded to 53 bits.
FloatMulInt(x, w) ==
    IF w = 0 \/ x.m[1] = 0 THEN ZeroFloat
    ELSE LET p == MulLimbs(x.m, w, 0)
             sh == BitLen(p[1]) - 1
             lost == p[NLimbs] % Pow2(sh)
         IN IF sh = 0 THEN [m |-> p, e |-> x.e]
            ELSE RoundNearestEven(ShiftRight(p, sh), x.e + sh,
                                  lost > Pow2(sh - 1), lost = Pow2(sh - 1))

\* limb * 2^k truncated, for any integer k.
ShiftLimb(limb, k) ==
    IF limb = 0 \/ k < 0 - LimbBits THEN 0
    ELSE IF k >= 0 THEN limb * Pow2(k)
    ELSE limb \div Pow2(0 - k)

\* Python's int(float) for a non-negative double: truncation.  The limbs are
\* disjoint bit fields, so the truncation of the sum is the sum of theirs.
RECURSIVE IntOfLimbs(_, _)
IntOfLimbs(b, e) ==
    IF b = <<>> THEN 0
    ELSE ShiftLimb(Last(b), e) + IntOfLimbs(Front(b), e + LimbBits)

IntOfFloat(x) == IntOfLimbs(x.m, x.e)

\* ------------------------------------------------------------------ state
VARIABLES
    fs,        \* the font files: candidate path -> [exists, loads]
    pc,        \* the script's position: import, mkdir, new, draw, save, print,
               \* done, raised
    cur,       \* the diagram builder main is in (1..4), 0 outside any
    fonts,     \* the module globals F_TITLE .. F_CAP (l.40-44), NoFonts before
    out_dir,   \* whether OUT_DIR exists
    img,       \* the running builder's canvas (its local img), NoCanvas if none
    files,     \* OUT_DIR's files: name -> image written, NoFile, Partial
    stdout,    \* the lines printed
    runs,      \* how many times the script has been started
    events,    \* what the process has done so far, in order: mkdir, the
               \* builders entered, the files saved, print
    call,      \* a single call of a toolkit function: its name and arguments
    drawn      \* what that call issued or returned

vars == <<fs, pc, cur, fonts, out_dir, img, files, stdout, runs, events, call, drawn>>

\* --------------------------------------------------------- fonts (l.24-44)
candidates == <<"/System/Library/Fonts/Supplemental/SF Pro Text.ttf",
                "/System/Library/Fonts/Supplemental/Arial Unicode.ttf",
                "/Library/Fonts/Arial.ttf">>

\* ImageFont.load_default(): the built-in font.
load_default == [kind |-> "default", path |-> "", size |-> 0]

\* ImageFont.truetype(path, size): a handle, or an exception when the file is
\* missing or does not load.
truetype(path, size, env) ==
    IF env[path].exists /\ env[path].loads
    THEN [raised |-> FALSE, font |-> [kind |-> "truetype", path |-> path, size |-> size]]
    ELSE [raised |-> TRUE, font |-> load_default]

\* A faulty font loop: the first candidate that fails to load ends the search
\* (the handler leaves the loop instead of passing).
RECURSIVE font_from_giveup(_, _, _)
font_from_giveup(i, size, env) ==
    IF i > Len(candidates) THEN load_default
    ELSE LET path == candidates[i]
             r == truetype(path, size, env)
         IN IF env[path].exists
            THEN IF ~r.raised THEN r.font ELSE load_default
            ELSE font_from_giveup(i + 1, size, env)

\* The loop of font (l.30-37) from candidate i on.
RECURSIVE font_from(_, _, _)
font_from(i, size, env) ==
    IF i > Len(candidates) THEN load_default                          \* l.37
    ELSE LET path == candidates[i]
             r == truetype(path, size, env)
         IN IF env[path].exists                                       \* l.32
            THEN IF ~r.raised THEN r.font                             \* l.34
                 ELSE font_from(i + 1, size, env)                     \* l.35-36
            ELSE font_from(i + 1, size, env)

\* font(size, bold): bold is not read.
font(size, bold, env) == font_from(1, size, env)

\* The module globals (l.40-44).
module_fonts(env) ==
    [F_TITLE |-> font(58, TRUE, env),
     F_H2    |-> font(36, TRUE, env),
     F_H3    |-> font(28, TRUE, env),
     F_BODY  |-> font(24, FALSE, env),
     F_CAP   |-> font(20, FALSE, env)]

NoFonts == [state |-> "not loaded"]

\* ------------------------------------------- ImageDraw's operations, as issued
rounded_rectangle(xy, radius, fill, outline, width) ==
    [op |-> "rounded_rectangle", xy |-> xy, radius |-> radius, fill |-> fill,
     outline |-> outline, width |-> width]
text(xy, string, fill, f) ==
    [op |-> "text", xy |-> xy, text |-> string, fill |-> fill, font |-> f]
line(xy, fill, width) == [op |-> "line", xy |-> xy, fill |-> fill, width |-> width]
polygon(xy, fill) == [op |-> "polygon", xy |-> xy, fill |-> fill]
ellipse(xy, fill) == [op |-> "ellipse", xy |-> xy, fill |-> fill]

\* --------------------------------------------------- composite shapes (l.47-64)
\* Python's truth value of a title: None and "" are false.
Truthy(title) == title # None /\ title # ""

\* A faulty panel: the title is tested against None only, so an empty title
\* is drawn too.
panel_not_none(x, y, w, h, title) ==
    <<rounded_rectangle(<<x, y, x + w, y + h>>, 20, SURFACE, BORDER, 2)>>
    \o (IF title # None
        THEN <<text(<<x + 20, y + 14>>, title, TEXT, fonts.F_H3)>>
        ELSE <<>>)

panel(x, y, w, h, title) ==
    <<rounded_rectangle(<<x, y, x + w, y + h>>, 20, SURFACE, BORDER, 2)>>   \* l.48
    \o (IF Truthy(title)                                                    \* l.49
        THEN <<text(<<x + 20, y + 14>>, title, TEXT, fonts.F_H3)>>          \* l.50
        ELSE <<>>)

bullet(x, y, string, color) ==
    <<ellipse(<<x, y + 8, x + 10, y + 18>>, color),                         \* l.54
      text(<<x + 18, y>>, string, TEXT, fonts.F_BODY)>>                     \* l.55

\* A faulty arrow: the tie x1 = x2 points left (x2 > x1 tested).
arrow_strict(x1, y1, x2, y2, color) ==
    LET tip == IF x2 > x1
               THEN <<(<<x2, y2>>), (<<x2 - 14, y2 - 8>>), (<<x2 - 14, y2 + 8>>)>>
               ELSE <<(<<x2, y2>>), (<<x2 + 14, y2 - 8>>), (<<x2 + 14, y2 + 8>>)>>
    IN <<line(<<x1, y1, x2, y2>>, color, 4), polygon(tip, color)>>

arrow(x1, y1, x2, y2, color) ==
    LET tip == IF x2 >= x1                                                  \* l.60
               THEN <<(<<x2, y2>>), (<<x2 - 14, y2 - 8>>), (<<x2 - 14, y2 + 8>>)>>
               ELSE <<(<<x2, y2>>), (<<x2 + 14, y2 - 8>>), (<<x2 + 14, y2 + 8>>)>>
    IN <<line(<<x1, y1, x2, y2>>, color, 4), polygon(tip, color)>>          \* l.59, 64

\* ------------------------------------------------------- chart (l.226-249)
\* A normalized coordinate is a two-decimal literal: n stands for n/100.
Hundred == 100
Norm(n) == FloatLiteral(n, Hundred)

\* A faulty to_xy: the product is rounded to the nearest pixel (round for int).
RECURSIVE to_xy_round(_, _, _, _, _)
to_xy_round(points, chart_x, chart_y, chart_w, chart_h) ==
    IF points = <<>> THEN <<>>
    ELSE <<(<<chart_x + (2 * Head(points)[1] * chart_w + Hundred) \div (2 * Hundred),
              chart_y + (2 * Head(points)[2] * chart_h + Hundred) \div (2 * Hundred)>>)>>
         \o to_xy_round(Tail(points), chart_x, chart_y, chart_w, chart_h)

\* A faulty to_xy: the pixels are returned last point first (insert at the
\* head for append).
RECURSIVE to_xy_reversed(_, _, _, _, _)
to_xy_reversed(points, chart_x, chart_y, chart_w, chart_h) ==
    IF points = <<>> THEN <<>>
    ELSE to_xy_reversed(Tail(points), chart_x, chart_y, chart_w, chart_h)
         \o <<(<<chart_x + IntOfFloat(FloatMulInt(Norm(Head(points)[1]), chart_w)),
                 chart_y + IntOfFloat(FloatMulInt(Norm(Head(points)[2]), chart_h))>>)>>

\* to_xy (l.229-233), over the chart bounds of the enclosing scope.
RECURSIVE to_xy(_, _, _, _, _)
to_xy(points, chart_x, chart_y, chart_w, chart_h) ==
    IF points = <<>> THEN <<>>
    ELSE LET px == Norm(Head(points)[1])
             py == Norm(Head(points)[2])
         IN <<(<<chart_x + IntOfFloat(FloatMulInt(px, chart_w)),
                 chart_y + IntOfFloat(FloatMulInt(py, chart_h))>>)>>
            \o to_xy(Tail(points), chart_x, chart_y, chart_w, chart_h)

points_local ==
    <<(<<5, 78>>), (<<20, 70>>), (<<35, 58>>), (<<50, 54>>), (<<65, 48>>),
      (<<80, 44>>), (<<93, 40>>)>>                                          \* l.226
points_remote ==
    <<(<<5, 78>>), (<<20, 70>>), (<<35, 58>>), (<<50, 51>>), (<<65, 40>>),
      (<<80, 30>>), (<<93, 18>>)>>                                          \* l.227

\* ------------------------------------------------ the four builders' drawing
\* What render_architecture issues between Image.new and img.save (l.70-109).
architecture_ops ==
    <<text(<<56, 40>>, "Tokfence Architecture", TEXT, fonts.F_TITLE)>>
    \o <<text(<<56, 112>>, "Agents-first desktop + UDS/TCP dual transport + ImmuneFence", MUTED, fonts.F_CAP)>>
    \o panel(56, 180, 280, 260, "Clients")
    \o bullet(82, 242, "OpenClaw", GREEN)
    \o bullet(82, 286, "CLI", GREEN)
    \o bullet(82, 330, "Desktop App", GREEN)
    \o panel(390, 180, 280, 260, "Transport")
    \o bullet(416, 242, "UDS: ~/.tokfence/tokfence.sock", BLUE)
    \o bullet(416, 286, "TCP: 127.0.0.1:9471", BLUE)
    \o bullet(416, 330, "Socket perms: 0660", BLUE)
    \o panel(724, 180, 360, 260, "Tokfence Core")
    \o bullet(750, 242, "Proxy routing + header sanitization", GREEN)
    \o bullet(750, 286, "Budget + rate limits + kill switch", GREEN)
    \o bullet(750, 330, "Live logs + stats + watch", GREEN)
    \o panel(1138, 180, 340, 260, "Providers")
    \o bullet(1164, 242, "Anthropic / OpenAI / Groq", GREEN)
    \o bullet(1164, 286, "Mistral / Google / OpenRouter", GREEN)
    \o bullet(1164, 330, "Custom upstreams", GREEN)
    \o arrow(336, 310, 390, 310, BLUE)
    \o arrow(670, 310, 724, 310, BLUE)
    \o arrow(1084, 310, 1138, 310, BLUE)
    \o panel(56, 500, 700, 440, "Security Layer (ImmuneFence)")
    \o bullet(84, 562, "Capability token validation (Ed25519)", GREEN)
    \o bullet(84, 606, "Risk ladder: GREEN -> YELLOW -> ORANGE -> RED", AMBER)
    \o bullet(84, 650, "Sensor scans: secret refs, endpoint abuse", GREEN)
    \o bullet(84, 694, "Canary leak tripwire -> RED escalation", RED)
    \o bullet(84, 738, "Scope restrictions per risk state", GREEN)
    \o panel(800, 500, 678, 440, "Data Plane Guarantees")
    \o bullet(828, 562, "Keys stay in vault (Keychain/Argon2 file)", GREEN)
    \o bullet(828, 606, "Agent receives dummy apiKey only", GREEN)
    \o bullet(828, 650, "Upstream auth injected at request time", GREEN)
    \o bullet(828, 694, "No secret bodies in normal request logs", GREEN)
    \o bullet(828, 738, "Desktop snapshots: local-only, 0600", GREEN)

\* The Risk Escalation container of render_security_model (l.139-142).
risk_x == 620
risk_y == 590
risk_w == 780
risk_h == 290
segments ==
    <<(<<"GREEN", GREEN>>), (<<"YELLOW", AMBER>>), (<<"ORANGE", "#FB923C">>),
      (<<"RED", RED>>)>>                                                    \* l.146-151

\* The loop over the segments (l.155-160), from position sx on.
RECURSIVE segment_loop(_, _, _, _)
segment_loop(segs, sx, sy, sw) ==
    IF segs = <<>> THEN <<>>
    ELSE <<rounded_rectangle(<<sx, sy, sx + sw, sy + 76>>, 12, Head(segs)[2], None, 1),
           text(<<sx + 46, sy + 24>>, Head(segs)[1], "#0B1220", fonts.F_H3)>>
         \o (IF sx + sw + 42 < risk_x + risk_w                              \* l.158
             THEN arrow(sx + sw + 8, sy + 38, sx + sw + 34, sy + 38, BLUE)
             ELSE <<>>)
         \o segment_loop(Tail(segs), sx + sw + 50, sy, sw)                  \* l.160

\* What render_security_model issues (l.117-162).
security_model_ops ==
    <<text(<<56, 40>>, "Tokfence Security Model", TEXT, fonts.F_TITLE)>>
    \o <<text(<<56, 112>>, "Practical trust boundaries and layered controls", MUTED, fonts.F_CAP)>>
    \o panel(56, 180, 460, 760, "Threats")
    \o bullet(84, 250, "Prompt injection attempts to exfiltrate keys", RED)
    \o bullet(84, 300, "Compromised local process calls proxy", RED)
    \o bullet(84, 350, "Runaway token spend or abuse", RED)
    \o bullet(84, 400, "Dangerous endpoint/method misuse", RED)
    \o bullet(84, 450, "Leaked token appears in outputs", RED)
    \o <<text(<<84, 530>>, "Boundary note:", TEXT, fonts.F_H3)>>
    \o <<text(<<84, 574>>, "localhost is not a full isolation boundary.", MUTED, fonts.F_BODY)>>
    \o <<text(<<84, 612>>, "UDS + capabilities reduce attack surface", MUTED, fonts.F_BODY)>>
    \o <<text(<<84, 650>>, "but do not replace host compromise defenses.", MUTED, fonts.F_BODY)>>
    \o panel(556, 180, 924, 760, "Controls")
    \o bullet(584, 250, "Vault-backed key injection (no plaintext key in agent)", GREEN)
    \o bullet(584, 300, "Dual listener: UDS preferred, TCP for Docker flows", BLUE)
    \o bullet(584, 350, "Capability gating before upstream/tool actions", GREEN)
    \o bullet(584, 400, "Risk-state policy enforcement (scope + TTL)", GREEN)
    \o bullet(584, 450, "Budget/rate-limit/kill switch containment", GREEN)
    \o bullet(584, 500, "Canary leak detection with incident logging", AMBER)
    \o <<rounded_rectangle(<<risk_x, risk_y, risk_x + risk_w, risk_y + risk_h>>,
                           16, SURFACE_ALT, BORDER, 2)>>                    \* l.143
    \o <<text(<<risk_x + 24, risk_y + 16>>, "Risk Escalation", TEXT, fonts.F_H3)>>
    \o segment_loop(segments, risk_x + 28, risk_y + 86, 170)                \* l.152-160
    \o <<text(<<risk_x + 24, risk_y + 196>>,
              "No auto-downgrade in-session. New session/reset required.",
              MUTED, fonts.F_BODY)>>                                        \* l.162

actions ==
    <<"tokfence start / stop / status",
      "tokfence launch / restart / logs",
      "tokfence kill / unkill / revoke / restore",
      "tokfence budget set / clear / status",
      "tokfence watch --once / --interval">>                                \* l.180-186

\* The loop over actions (l.188-190), from height y on.
RECURSIVE actions_loop(_, _)
actions_loop(lines, y) ==
    IF lines = <<>> THEN <<>>
    ELSE <<text(<<84, y>>, "- " \o Head(lines), MUTED, fonts.F_BODY)>>
         \o actions_loop(Tail(lines), y + 44)

state_lines ==
    <<(<<"Daemon", "Online", GREEN>>),
      (<<"Transport", "UDS preferred + TCP fallback", BLUE>>),
      (<<"Capabilities", "Session scoped + signed", GREEN>>),
      (<<"Risk", "GREEN / YELLOW / ORANGE / RED", AMBER>>),
      (<<"Kill switch", "Immediate global block", RED>>),
      (<<"Audit", "SQLite request logs + stats", GREEN>>)>>                 \* l.193-200

\* The loop over state_lines (l.202-206), from height y on.
RECURSIVE state_loop(_, _)
state_loop(lines, y) ==
    IF lines = <<>> THEN <<>>
    ELSE <<rounded_rectangle(<<844, y, 1452, y + 90>>, 14, SURFACE_ALT, BORDER, 2),
           text(<<870, y + 20>>, Head(lines)[1], TEXT, fonts.F_H3),
           text(<<1110, y + 24>>, Head(lines)[2], Head(lines)[3], fonts.F_BODY)>>
         \o state_loop(Tail(lines), y + 104)

\* What render_control_plane issues (l.170-206).
control_plane_ops ==
    <<text(<<56, 40>>, "Tokfence Control Plane", TEXT, fonts.F_TITLE)>>
    \o <<text(<<56, 112>>, "Desktop + CLI operate the same local daemon state", MUTED, fonts.F_CAP)>>
    \o panel(56, 180, 720, 760, "Operator Surfaces")
    \o bullet(84, 250, "Agents tab: guided setup and runtime controls", GREEN)
    \o bullet(84, 300, "Overview / Activity / Budget / Providers", GREEN)
    \o bullet(84, 350, "Desktop snapshots for widget + menu bar", GREEN)
    \o bullet(84, 400, "CLI JSON contract for desktop integration", GREEN)
    \o <<text(<<84, 490>>, "Primary actions", TEXT, fonts.F_H3)>>          \* l.179
    \o actions_loop(actions, 540)                                          \* l.187-190
    \o panel(816, 180, 664, 760, "Runtime State")                          \* l.192
    \o state_loop(state_lines, 250)                                        \* l.201-206

\* The marker dots of a series (l.240-243).
RECURSIVE markers(_, _)
markers(xy, color) ==
    IF xy = <<>> THEN <<>>
    ELSE <<ellipse(<<Head(xy)[1] - 5, Head(xy)[2] - 5, Head(xy)[1] + 5, Head(xy)[2] + 5>>,
                   color)>>
         \o markers(Tail(xy), color)

\* The chart bounds of render_leak_detection (l.223).
chart_x == 92
chart_y == 560
chart_w == 1360
chart_h == 300

\* What render_leak_detection issues (l.214-253).
leak_detection_ops ==
    LET local_xy == to_xy(points_local, chart_x, chart_y, chart_w, chart_h)     \* l.235
        remote_xy == to_xy(points_remote, chart_x, chart_y, chart_w, chart_h)   \* l.236
        ax == chart_x + IntOfFloat(FloatMulInt(Norm(82), chart_w))              \* l.248
        ay == chart_y + IntOfFloat(FloatMulInt(Norm(30), chart_h))              \* l.249
    IN
    <<text(<<56, 40>>, "Key Leak Detector", TEXT, fonts.F_TITLE)>>
    \o <<text(<<56, 112>>, "Compare provider usage vs Tokfence logs and raise incidents", MUTED, fonts.F_CAP)>>
    \o panel(56, 180, 1424, 260, "Detection Inputs")
    \o bullet(84, 248, "Local logs: request count, tokens, cost by provider", GREEN)
    \o bullet(84, 292, "Remote usage endpoint: billing/usage totals", GREEN)
    \o bullet(84, 336, "Thresholds: absolute delta + percentage + idle-window", GREEN)
    \o panel(56, 470, 1424, 470, "Detection Timeline")
    \o <<rounded_rectangle(<<chart_x, chart_y, chart_x + chart_w, chart_y + chart_h>>,
                           12, SURFACE_ALT, BORDER, 2)>>                    \* l.224
    \o <<line(local_xy, GREEN, 5), line(remote_xy, RED, 5)>>                \* l.237-238
    \o markers(local_xy, GREEN)                                             \* l.240-241
    \o markers(remote_xy, RED)                                              \* l.242-243
    \o <<text(<<chart_x + 30, chart_y + 18>>, "Green = Tokfence local usage", GREEN, fonts.F_CAP),
         text(<<chart_x + 30, chart_y + 52>>, "Red = provider-side usage", RED, fonts.F_CAP)>>
    \o <<rounded_rectangle(<<ax - 170, ay - 120, ax + 220, ay + 30>>, 12, "#2B0E15", RED, 2),
         text(<<ax - 150, ay - 94>>, "Delta exceeds threshold", TEXT, fonts.F_BODY),
         text(<<ax - 150, ay - 54>>, "Risk -> RED, optional auto-revoke", TEXT, fonts.F_CAP)>>
    \o arrow(ax - 30, ay - 8, ax + 10, ay + 18, RED)                        \* l.253

\* main's builders, in call order (l.260-263), and the file each saves.
builders == <<"architecture", "security_model", "control_plane", "leak_detection">>
NBuilders == Len(builders)
file_of(b) == "infographic_" \o builders[b] \o ".png"
ops_of(b) ==
    CASE b = 1 -> architecture_ops
      [] b = 2 -> security_model_ops
      [] b = 3 -> control_plane_ops
      [] b = 4 -> leak_detection_ops

\* ------------------------------------------------------------- the script
\* How many times the script is started.
MaxRuns == 2

OUT_DIR == "docs/launch"
NoCanvas == [state |-> "no canvas"]
NoFile == [state |-> "no file"]
\* A file left by a save that failed after opening it.
Partial == [state |-> "partial"]
NoCall == [fn |-> "none", args |-> <<>>]

FileNames == {file_of(b) : b \in 1..NBuilders}

\* A font file is missing, present but unloadable, or present and loadable.
FileStates ==
    {[exists |-> FALSE, loads |-> FALSE], [exists |-> TRUE, loads |-> FALSE],
     [exists |-> TRUE, loads |-> TRUE]}
FontEnvs == [{candidates[i] : i \in 1..Len(candidates)} -> FileStates]

\* A process about to import the module (l.1-44); OUT_DIR may already exist.
Init ==
    /\ fs \in FontEnvs
    /\ pc = "import"
    /\ cur = 0
    /\ fonts = NoFonts
    /\ out_dir \in BOOLEAN
    /\ img = NoCanvas
    /\ files = [f \in FileNames |-> NoFile]
    /\ stdout = <<>>
    /\ runs = 1
    /\ events = <<>>
    /\ call = NoCall
    /\ drawn = <<>>

\* The module body: the five font() calls (l.40-44), then main is entered
\* (l.267-268).
import_module ==
    /\ pc = "import"
    /\ fonts' = module_fonts(fs)
    /\ pc' = "mkdir"
    /\ UNCHANGED <<fs, cur, out_dir, img, files, stdout, runs, events, call, drawn>>

\* OUT_DIR.mkdir(parents=True, exist_ok=True) (l.259) creates the directory or
\* finds it there.
main_mkdir ==
    /\ pc = "mkdir"
    /\ out_dir' = TRUE
    /\ pc' = "new"
    /\ cur' = 1
    /\ UNCHANGED <<fs, fonts, img, files, stdout, runs, call, drawn>>
    /\ events' = Append(events, "mkdir")

\* mkdir raises (the directory cannot be created): main has no handler.
main_mkdir_raises ==
    /\ pc = "mkdir"
    /\ ~out_dir
    /\ pc' = "raised"
    /\ UNCHANGED <<fs, cur, fonts, out_dir, img, files, stdout, runs, events, call, drawn>>

\* A faulty first statement: the builder opens its earlier output, when there
\* is one, and draws over it.
image_new_reopen ==
    /\ pc = "new"
    /\ img' = IF files[file_of(cur)] # NoFile /\ files[file_of(cur)] # Partial
              THEN files[file_of(cur)]
              ELSE [size |-> <<W, H>>, bg |-> BG, ops |-> <<>>]
    /\ pc' = "draw"
    /\ events' = Append(events, "render " \o builders[cur])
    /\ UNCHANGED <<fs, cur, fonts, out_dir, files, stdout, runs, call, drawn>>

\* The builder's first statements: img = Image.new("RGB", (W, H), BG) and
\* d = ImageDraw.Draw(img) (l.68-69, 115-116, 168-169, 212-213).
image_new ==
    /\ pc = "new"
    /\ img' = [size |-> <<W, H>>, bg |-> BG, ops |-> <<>>]
    /\ pc' = "draw"
    /\ UNCHANGED <<fs, cur, fonts, out_dir, files, stdout, runs, call, drawn>>
    /\ events' = Append(events, "render " \o builders[cur])

\* The builder's drawing statements, all of them, on its canvas.
draw ==
    /\ pc = "draw"
    /\ img' = [img EXCEPT !.ops = @ \o ops_of(cur)]
    /\ pc' = "save"
    /\ UNCHANGED <<fs, cur, fonts, out_dir, files, stdout, runs, events, call, drawn>>

\* A drawing call raises, the first one or the last one, after the calls
\* before it were issued: no builder and no caller has a handler, the
\* exception leaves main.
draw_raises ==
    /\ pc = "draw"
    /\ \E k \in {0, Len(ops_of(cur)) - 1} :
          img' = [img EXCEPT !.ops = @ \o SubSeq(ops_of(cur), 1, k)]
    /\ pc' = "raised"
    /\ UNCHANGED <<fs, cur, fonts, out_dir, files, stdout, runs, events, call, drawn>>

\* A faulty main: the print follows the third builder.
after_builder_early(b) ==
    IF b < NBuilders - 1 THEN [pc |-> "new", cur |-> b + 1]
    ELSE [pc |-> "print", cur |-> 0]

\* Where main goes on after builder b returned (l.260-264).
after_builder(b) ==
    IF b < NBuilders THEN [pc |-> "new", cur |-> b + 1]
    ELSE [pc |-> "print", cur |-> 0]

\* img.save(OUT_DIR / "infographic_<name>.png") (l.111, 164, 208, 255) and
\* the builder's return, which drops its locals img and d.
save ==
    /\ pc = "save"
    /\ out_dir
    /\ files' = [files EXCEPT ![file_of(cur)] = img]
    /\ img' = NoCanvas
    /\ pc' = after_builder(cur).pc
    /\ cur' = after_builder(cur).cur
    /\ UNCHANGED <<fs, fonts, out_dir, stdout, runs, call, drawn>>
    /\ events' = Append(events, "save " \o file_of(cur))

\* A faulty builder: the failure of the save is caught and passed over, and
\* main goes on.
save_raises_swallowed ==
    /\ pc = "save"
    /\ \/ files' = files
       \/ files' = [files EXCEPT ![file_of(cur)] = Partial]
    /\ img' = NoCanvas
    /\ pc' = IF cur < NBuilders THEN "new" ELSE "print"
    /\ cur' = IF cur < NBuilders THEN cur + 1 ELSE 0
    /\ UNCHANGED <<fs, fonts, out_dir, stdout, runs, events, call, drawn>>

\* The save raises (permission denied, disk full): the file is untouched or
\* left partial; nothing handles the exception and nothing closes img.
save_raises ==
    /\ pc = "save"
    /\ \/ files' = files
       \/ files' = [files EXCEPT ![file_of(cur)] = Partial]
    /\ pc' = "raised"
    /\ UNCHANGED <<fs, cur, fonts, out_dir, img, stdout, runs, events, call, drawn>>

\* print(f"updated infographics in {OUT_DIR}") (l.264).
main_print ==
    /\ pc = "print"
    /\ stdout' = Append(stdout, "updated infographics in " \o OUT_DIR)
    /\ pc' = "done"
    /\ UNCHANGED <<fs, cur, fonts, out_dir, img, files, runs, call, drawn>>
    /\ events' = Append(events, "print")

\* The process has ended and the script is started again: a new process,
\* the same file system.
start_again ==
    /\ pc \in {"done", "raised"}
    /\ runs < MaxRuns
    /\ runs' = runs + 1
    /\ pc' = "import"
    /\ cur' = 0
    /\ fonts' = NoFonts
    /\ img' = NoCanvas
    /\ stdout' = <<>>
    /\ UNCHANGED <<fs, out_dir, files, call, drawn>>
    /\ events' = <<>>

Next ==
    \/ import_module
    \/ main_mkdir
    \/ main_mkdir_raises
    \/ image_new
    \/ draw
    \/ draw_raises
    \/ save
    \/ save_raises
    \/ main_print
    \/ start_again

Spec == Init /\ [][Next]_vars

\* ------------------------------------------------------------ the toolkit
\* The module imported by a client (l.267: main does not run) that calls one
\* toolkit function with arguments of its choice.
MaxSeries == 2

ArrowXs == {0, 336, 390, 1084}
ArrowYs == {0, 310, 318}
PanelXs == {0, 56}
PanelYs == {0, 180}
PanelWs == {1, 280}
PanelHs == {1, 260}
Titles == {None, "", "Clients"}
ChartBounds == {<<92, 560, 1360, 300>>, <<0, 0, 1, 1>>, <<0, 0, 100, 100>>, <<10, 20, 3, 7>>}
NormPoints == {<<0, 0>>, <<100, 100>>, <<5, 78>>, <<93, 40>>, <<58, 58>>, <<100, 0>>}
Series == UNION {[1..k -> NormPoints] : k \in 0..MaxSeries}
FontSizes == {20, 58}

ToolkitInit ==
    /\ fs \in FontEnvs
    /\ pc = "imported"
    /\ cur = 0
    /\ fonts = module_fonts(fs)
    /\ out_dir \in BOOLEAN
    /\ img = NoCanvas
    /\ files = [f \in FileNames |-> NoFile]
    /\ stdout = <<>>
    /\ runs = 1
    /\ events = <<>>
    /\ call = NoCall
    /\ drawn = <<>>

call_arrow ==
    /\ call = NoCall
    /\ \E x1 \in ArrowXs, y1 \in ArrowYs, x2 \in ArrowXs, y2 \in ArrowYs, color \in {BLUE, RED} :
          /\ call' = [fn |-> "arrow", args |-> <<x1, y1, x2, y2, color>>]
          /\ drawn' = arrow(x1, y1, x2, y2, color)
    /\ UNCHANGED <<fs, pc, cur, fonts, out_dir, img, files, stdout, runs, events>>

call_panel ==
    /\ call = NoCall
    /\ \E x \in PanelXs, y \in PanelYs, w \in PanelWs, h \in PanelHs, title \in Titles :
          /\ call' = [fn |-> "panel", args |-> <<x, y, w, h, title>>]
          /\ drawn' = panel(x, y, w, h, title)
    /\ UNCHANGED <<fs, pc, cur, fonts, out_dir, img, files, stdout, runs, events>>

call_to_xy ==
    /\ call = NoCall
    /\ \E b \in ChartBounds, points \in Series :
          /\ call' = [fn |-> "to_xy", args |-> <<points, b>>]
          /\ drawn' = to_xy(points, b[1], b[2], b[3], b[4])
    /\ UNCHANGED <<fs, pc, cur, fonts, out_dir, img, files, stdout, runs, events>>

call_font ==
    /\ call = NoCall
    /\ \E size \in FontSizes, bold \in BOOLEAN :
          /\ call' = [fn |-> "font", args |-> <<size, bold>>]
          /\ drawn' = <<font(size, bold, fs)>>
    /\ UNCHANGED <<fs, pc, cur, fonts, out_dir, img, files, stdout, runs, events>>

ToolkitNext == call_arrow \/ call_panel \/ call_to_xy \/ call_font

SpecToolkit == ToolkitInit /\ [][ToolkitNext]_vars

\* ================================================================ properties
IsImage(f) == f # NoFile /\ f # Partial

\* The indices of the canvas operations of one kind.
OpsOfKind(ops, kind) == {i \in 1..Len(ops) : ops[i].op = kind}

\* C1: arrow issues the line from (x1,y1) to (x2,y2), then exactly one
\* triangle with its tip at (x2,y2); the base corners are 14 to the left when
\* x2 >= x1 (the tie x1 = x2 included), 14 to the right when x2 < x1, 8 above
\* and below y2; y1 plays no part in the triangle.
C1_ArrowHead ==
    call.fn = "arrow" =>
        LET x1 == call.args[1]
            y1 == call.args[2]
            x2 == call.args[3]
            y2 == call.args[4]
            bx == IF x2 - x1 >= 0 THEN x2 - 14 ELSE x2 + 14
        IN /\ Len(drawn) = 2
           /\ drawn[1] = [op |-> "line", xy |-> <<x1, y1, x2, y2>>,
                          fill |-> call.args[5], width |-> 4]
           /\ drawn[2] = [op |-> "polygon", fill |-> call.args[5],
                          xy |-> <<(<<x2, y2>>), (<<bx, y2 - 8>>), (<<bx, y2 + 8>>)>>]

\* C1 witness: arrow(336,310,390,310) has drawn the triangle (390,310),
\* (376,302), (376,318).
C1_Witness ==
    /\ call.fn = "arrow"
    /\ call.args = <<336, 310, 390, 310, BLUE>>
    /\ Len(drawn) = 2
    /\ drawn[2].xy = <<(<<390, 310>>), (<<376, 302>>), (<<376, 318>>)>>

\* The green series line of the canvas of render_leak_detection.
GreenLines == {i \in OpsOfKind(img.ops, "line") : img.ops[i].fill = GREEN}
LeakDrawn == pc = "save" /\ cur = 4

\* C2 as stated: in the leak-detection chart the green line starts at pixel
\* (160,794) and ends at pixel (1358,680).
C2_Original ==
    LeakDrawn =>
        /\ GreenLines # {}
        /\ \A i \in GreenLines :
              /\ img.ops[i].xy[1] = <<160, 794>>
              /\ img.ops[i].xy[Len(img.ops[i].xy)] = <<1358, 680>>

\* C2 amended: the green line starts at pixel (160,794) and ends at pixel
\* (1356,680): 0.93 * 1360 = 1264.8 truncates to 1264, and 92 + 1264 = 1356.
C2_Amended ==
    LeakDrawn =>
        /\ GreenLines # {}
        /\ \A i \in GreenLines :
              /\ Len(img.ops[i].xy) = Len(points_local)
              /\ img.ops[i].xy[1] = <<160, 794>>
              /\ img.ops[i].xy[Len(img.ops[i].xy)] = <<1356, 680>>

\* C2 witness: the leak-detection canvas is drawn and holds the green line.
C2_Witness == LeakDrawn /\ GreenLines # {}

\* floor(n * w / 100): the mapping with exact decimal arithmetic.
ExactFloor(n, w) == (n * w) \div 100

\* C3: to_xy returns one pixel per input point, in the input order; (0,0)
\* maps to (bx,by) and (1,1) to (bx+bw,by+bh) exactly; every point of
\* [0,1]x[0,1] maps into [bx,bx+bw]x[by,by+bh]; the mapping is monotone on
\* each axis; and each pixel is the floored affine image of its point (the
\* double product may fall one pixel short of the exact decimal one).
C3_ChartMapping ==
    call.fn = "to_xy" =>
        LET points == call.args[1]
            b == call.args[2]
        IN /\ Len(drawn) = Len(points)
           /\ \A i \in 1..Len(points) :
                 /\ points[i] = <<0, 0>> => drawn[i] = <<b[1], b[2]>>
                 /\ points[i] = <<100, 100>> => drawn[i] = <<b[1] + b[3], b[2] + b[4]>>
                 /\ b[1] <= drawn[i][1] /\ drawn[i][1] <= b[1] + b[3]
                 /\ b[2] <= drawn[i][2] /\ drawn[i][2] <= b[2] + b[4]
                 /\ drawn[i][1] - b[1] \in {ExactFloor(points[i][1], b[3]) - 1,
                                            ExactFloor(points[i][1], b[3])}
                 /\ drawn[i][2] - b[2] \in {ExactFloor(points[i][2], b[4]) - 1,
                                            ExactFloor(points[i][2], b[4])}
           /\ \A i, j \in 1..Len(points) :
                 /\ points[i][1] <= points[j][1] => drawn[i][1] <= drawn[j][1]
                 /\ points[i][2] <= points[j][2] => drawn[i][2] <= drawn[j][2]

\* C3 witness: to_xy has mapped (0,0), (1,1) in the bounds (92,560,1360,300)
\* to (92,560), (1452,860).
C3_Witness ==
    /\ call.fn = "to_xy"
    /\ call.args = <<(<<(<<0, 0>>), (<<100, 100>>)>>), (<<92, 560, 1360, 300>>)>>
    /\ drawn = <<(<<92, 560>>), (<<1452, 860>>)>>

\* C4: panel issues one rounded rectangle over (x, y, x+w, y+h) with radius
\* 20, outline width 2, the theme's surface fill and border; then the title
\* at (x+20, y+14) in the heading font exactly when a title is given (not
\* None, not empty); and nothing else.
C4_Panel ==
    call.fn = "panel" =>
        LET x == call.args[1]
            y == call.args[2]
            w == call.args[3]
            h == call.args[4]
            title == call.args[5]
            given == title # "None" /\ title # ""
        IN /\ drawn[1] = [op |-> "rounded_rectangle", xy |-> <<x, y, x + w, y + h>>,
                          radius |-> 20, fill |-> "#111B30", outline |-> "#1F2A44",
                          width |-> 2]
           /\ Len(drawn) = IF given THEN 2 ELSE 1
           /\ given => drawn[2] = [op |-> "text", xy |-> <<x + 20, y + 14>>,
                                   text |-> title, fill |-> "#E5E7EB",
                                   font |-> fonts.F_H3]

\* C4 witness: panel(56,180,280,260,"Clients") has drawn the rectangle over
\* (56,180)-(336,440) and "Clients" at (76,194).
C4_Witness ==
    /\ call.fn = "panel"
    /\ call.args = <<56, 180, 280, 260, "Clients">>
    /\ Len(drawn) = 2
    /\ drawn[1].xy = <<56, 180, 336, 440>>
    /\ drawn[2].xy = <<76, 194>>
    /\ drawn[2].text = "Clients"

\* The candidates that exist and load, by position in the list.
Loadable == {i \in 1..Len(candidates) : fs[candidates[i]].exists /\ fs[candidates[i]].loads}

\* C5: whatever files exist and load, font returns a handle: the one loaded
\* from the first candidate, in list order, that exists and loads (the ones
\* before it, missing or failing, are passed over), and the built-in default
\* when there is none.
C5_FontTotal ==
    call.fn = "font" =>
        /\ Len(drawn) = 1
        /\ drawn[1].kind \in {"truetype", "default"}
        /\ Loadable = {} => drawn[1] = [kind |-> "default", path |-> "", size |-> 0]
        /\ \A i \in Loadable :
              (\A j \in Loadable : i <= j) =>
                  drawn[1] = [kind |-> "truetype", path |-> candidates[i],
                              size |-> call.args[1]]

\* C5 witness: the first candidate exists and fails to load, the second
\* loads, and font has returned the second.
C5_Witness ==
    /\ call.fn = "font"
    /\ fs[candidates[1]] = [exists |-> TRUE, loads |-> FALSE]
    /\ fs[candidates[2]] = [exists |-> TRUE, loads |-> TRUE]
    /\ drawn[1].kind = "truetype"
    /\ drawn[1].path = candidates[2]

\* C6: an image written over an earlier image of the same builder is
\* identical to it, and is the drawing of a fresh W x H canvas of background
\* BG: nothing an earlier run or another builder left changes it.
C6_Idempotent ==
    [][\A f \in FileNames :
          (IsImage(files[f]) /\ IsImage(files'[f]))
             => /\ files'[f] = files[f]
                /\ files'[f].size = <<1536, 1024>>
                /\ files'[f].bg = "#0B1220"]_vars

\* C6 witness: in the second run the last builder has drawn its canvas, equal
\* to the image its first run saved, and is about to save it.
C6_Witness ==
    /\ runs = 2
    /\ pc = "save"
    /\ cur = 4
    /\ IsImage(files[file_of(4)])
    /\ img = files[file_of(4)]

\* The whole of a run of main, in order.
FullRun ==
    <<"mkdir",
      "render architecture", "save infographic_architecture.png",
      "render security_model", "save infographic_security_model.png",
      "render control_plane", "save infographic_control_plane.png",
      "render leak_detection", "save infographic_leak_detection.png",
      "print">>

IsPrefix(a, b) == Len(a) <= Len(b) /\ a = SubSeq(b, 1, Len(a))

\* C7: what a run of main has done is always a prefix of: mkdir, then for
\* architecture, security_model, control_plane, leak_detection in this order
\* the builder and the save of its own file, then the print; the directory
\* exists whenever a builder runs, and the message is out only after the
\* four saves.
C7_MainOrder ==
    /\ IsPrefix(events, FullRun)
    /\ pc \in {"new", "draw", "save"} => out_dir /\ events[1] = "mkdir"
    /\ stdout # <<>> => events = FullRun

\* C7 witness: a run of main has ended with the message printed.
C7_Witness == pc = "done" /\ events = FullRun /\ Len(stdout) = 1

\* C8: a failure ends the run: the step that raises prints nothing, starts
\* no builder and changes no file but the failing builder's own; after it the
\* process does nothing more (only a new start follows); an image is written
\* only by the running builder and is its whole drawing, and a finished run
\* has saved all four.
C8_Propagates ==
    /\ [](pc = "raised" => stdout = <<>> /\ (Len(events) = 0 \/ Last(events) # "print"))
    /\ [](pc = "done" => \A b \in 1..NBuilders : IsImage(files[file_of(b)]))
    /\ [][/\ pc' = "raised" =>
               /\ events' = events
               /\ cur' = cur
               /\ \A b \in 1..NBuilders : b # cur => files'[file_of(b)] = files[file_of(b)]
          /\ pc = "raised" => pc' = "import" /\ runs' = runs + 1
          /\ \A b \in 1..NBuilders :
                (files'[file_of(b)] # files[file_of(b)] /\ IsImage(files'[file_of(b)]))
                   => b = cur /\ files'[file_of(b)].ops = ops_of(b)]_vars

\* C8 witness: the second builder has failed after the first saved its file.
C8_Witness ==
    /\ pc = "raised"
    /\ cur = 2
    /\ IsImage(files[file_of(1)])
    /\ ~IsImage(files[file_of(2)])
    /\ stdout = <<>>

\* C9 as stated: once a builder has returned or raised, its canvas and the
\* font handles are released.
C9_Released ==
    (cur >= 1 /\ pc = "raised") \/ (cur > 1 /\ pc = "new") \/ pc \in {"print", "done"}
        => img = NoCanvas /\ fonts = NoFonts

\* C10 as stated: every segment rectangle and connector arrow of the risk
\* escalation loop lies within the container's horizontal extent [620, 1400].
C10_WithinContainer ==
    (pc = "save" /\ cur = 2) =>
        /\ \A i \in OpsOfKind(img.ops, "rounded_rectangle") :
              img.ops[i].radius = 12
                 => 620 <= img.ops[i].xy[1] /\ img.ops[i].xy[3] <= 1400
        /\ \A i \in OpsOfKind(img.ops, "line") :
              620 <= img.ops[i].xy[1] /\ img.ops[i].xy[3] <= 1400
        /\ \A i \in OpsOfKind(img.ops, "polygon") :
              \A k \in 1..Len(img.ops[i].xy) :
                 620 <= img.ops[i].xy[k][1] /\ img.ops[i].xy[k][1] <= 1400

====
